---- MODULE Spec2Model ----
(***************************************************************************)
(* Model of src/wine_api_processor.py: WineAPIProcessor.process_csv, its   *)
(* helpers _make_api_call, _write_results_csv and _generate_mock_price,    *)
(* the file system they touch and the wall clock they read.                *)
(*                                                                         *)
(* Strings the code inspects are sequences of one-character strings, so    *)
(* that int() and str.replace() are computed, not assumed.  File paths are *)
(* sequences of tokens; the only token holding the substring ".csv" is the *)
(* token ".csv" itself, so replacing the token is replacing the substring. *)
(***************************************************************************)
EXTENDS Integers, Sequences, FiniteSets, TLC

VARIABLES
    files,                \* the file system: path -> content, for existing paths
    now,                  \* wall clock, in seconds
    run,                  \* number of the current invocation of process_csv
    inputPath,            \* csv_file_path
    enable_mock_pricing,  \* self.enable_mock_pricing
    rate_limit_delay,     \* self.rate_limit_delay
    pc,                   \* position of process_csv
    nRows,                \* data rows of the opened table
    rowsRead,             \* rows the reader has yielded
    stats,                \* stats
    results,              \* results
    calls,                \* row numbers for which session.get was issued
    lastCall,             \* what happened to the row handled last
    sleeps,               \* time.sleep calls of this run
    writerCalls,          \* invocations of _write_results_csv in this run
    writerArg,            \* the results sequence handed to the writer
    prompted,             \* input() was called by the writer
    answer,               \* whether the operator accepted, when prompted
    outPath,              \* the path the writer passed to open(..., 'w')
    writeFailed,          \* which step of the writer failed
    returned,             \* the value process_csv returned
    error,                \* the exception process_csv raised
    priceIn,              \* argument of a stand-alone _generate_mock_price call
    priceOut              \* its return value

vars == <<files, now, run, inputPath, enable_mock_pricing, rate_limit_delay, pc,
          nRows, rowsRead, stats, results, calls, lastCall, sleeps, writerCalls,
          writerArg, prompted, answer, outPath, writeFailed, returned, error, priceIn, priceOut>>

runVars == <<pc, nRows, rowsRead, stats, results, calls, lastCall, sleeps, writerCalls,
             writerArg, prompted, answer, outPath, writeFailed, returned, error>>

priceVars == <<priceIn, priceOut>>

-----------------------------------------------------------------------------
(* Bounds *)

MaxRows == 3        \* data rows of an input table
MaxRerunRows == 1   \* data rows of an input table in the repeated-run specification
MaxRuns == 2        \* invocations of process_csv against the same input
MaxClock == 1       \* seconds the wall clock can advance

-----------------------------------------------------------------------------
(* Values *)

\* Python's None where a string is expected: no string is this sequence, since
\* strings are sequences of one-character strings.
None == <<"<None>">>

Str1999 == <<"1", "9", "9", "9">>
Str2012 == <<"2", "0", "1", "2">>
StrBad == <<"b", "a", "d">>

\* Rows a csv.DictReader can yield: a full row, a row whose vintage is no number,
\* and a short row, whose missing 'Wine Name' field is None.
Rows ==
    { [name |-> <<"A">>, vintage |-> Str1999],
      [name |-> <<"C">>, vintage |-> StrBad],
      [name |-> None, vintage |-> Str2012] }

\* What the remote end does with a GET: a status code, or a RequestException
\* (a timeout is one).
Responses == {"200", "500", "timeout"}

Tok(t) == [t |-> t, n |-> 0]
Stamp(n) == [t |-> "stamp", n |-> n]

InputPaths == { <<Tok("wines"), Tok(".csv")>>, <<Tok("wines"), Tok(".txt")>> }

NoStats == [none |-> TRUE]
NoPath == <<>>

-----------------------------------------------------------------------------
(* int(vintage), line 275 *)

Digits == {"0", "1", "2", "3", "4", "5", "6", "7", "8", "9"}

DigitVal(c) ==
    CASE c = "0" -> 0 [] c = "1" -> 1 [] c = "2" -> 2 [] c = "3" -> 3 [] c = "4" -> 4
      [] c = "5" -> 5 [] c = "6" -> 6 [] c = "7" -> 7 [] c = "8" -> 8 [] c = "9" -> 9

RECURSIVE LStrip(_)
LStrip(s) == IF s # <<>> /\ Head(s) = " " THEN LStrip(Tail(s)) ELSE s

RECURSIVE RStrip(_)
RStrip(s) ==
    IF s # <<>> /\ s[Len(s)] = " " THEN RStrip(SubSeq(s, 1, Len(s) - 1)) ELSE s

RECURSIVE DigitsValue(_, _)
DigitsValue(s, acc) ==
    IF s = <<>> THEN acc ELSE DigitsValue(Tail(s), 10 * acc + DigitVal(Head(s)))

\* int(x) for x a str or None: surrounding blanks are stripped, one sign is
\* allowed, the rest must be a non-empty run of decimal digits.  ok = FALSE
\* stands for the ValueError (or, for None, the TypeError) int() raises.
IntParse(x) ==
    IF x = None THEN [ok |-> FALSE, val |-> 0]
    ELSE LET t == RStrip(LStrip(x))
             signed == t # <<>> /\ Head(t) \in {"-", "+"}
             d == IF signed THEN Tail(t) ELSE t
         IN  IF d # <<>> /\ \A i \in 1..Len(d) : d[i] \in Digits
             THEN [ok |-> TRUE,
                   val |-> IF signed /\ Head(t) = "-" THEN 0 - DigitsValue(d, 0)
                           ELSE DigitsValue(d, 0)]
             ELSE [ok |-> FALSE, val |-> 0]

-----------------------------------------------------------------------------
(* _generate_mock_price, lines 261-297.  Prices are in cents: f"${p:.2f}"     *)
(* rounds to the cent, so the formatted string is determined by the cents.  *)

NotApplicable == [text |-> "N/A", cents |-> 0]
Dollars(cents) == [text |-> "$", cents |-> cents]

\* random.uniform(-5, 8), rounded to the cent by the formatting.
UniformCents == (0 - 500)..800

\* Mutant of BasePrice: the brackets closed at the wrong end.
BasePriceInclusive(year) ==
    IF year <= 2000 THEN 25
    ELSE IF year <= 2010 THEN 35
    ELSE IF year <= 2020 THEN 28
    ELSE 22

BasePrice(year) ==
    IF year < 2000 THEN 25
    ELSE IF year < 2010 THEN 35
    ELSE IF year < 2020 THEN 28
    ELSE 22

\* variation is the value random.uniform returns, in cents.
GenerateMockPrice(vintage, variation) ==
    IF ~enable_mock_pricing THEN NotApplicable
    ELSE LET year == IntParse(vintage)
         IN  IF year.ok THEN Dollars(100 * BasePrice(year.val) + variation)
             ELSE Dollars(3299)

-----------------------------------------------------------------------------
(* _make_api_call, lines 143-210 *)

\* quote_plus(mapped_row.get('winename', '')) raises TypeError on None, before the
\* request is sent; every Exception of the body is caught and turned into False.
\* issued: session.get was called.  ret: the return value.
MakeApiCall(row, resp) ==
    IF row.name = None THEN [issued |-> FALSE, ret |-> FALSE]
    ELSE [issued |-> TRUE, ret |-> (resp = "200")]

-----------------------------------------------------------------------------
(* The file system and the paths of _write_results_csv, lines 215-223 *)

\* str.replace('.csv', new): every occurrence is replaced; a path without the
\* substring comes back unchanged.
RECURSIVE Replace(_, _)
Replace(p, new) ==
    IF p = <<>> THEN <<>>
    ELSE (IF Head(p) = Tok(".csv") THEN new ELSE <<Head(p)>>) \o Replace(Tail(p), new)

\* csv_file_path.replace('.csv', '_results.csv')
ResultsPath(p) == Replace(p, <<Tok("_results"), Tok(".csv")>>)

\* csv_file_path.replace('.csv', f'_results_{timestamp}.csv'); the timestamp is
\* datetime.now() cut to the second, and now counts whole seconds.
StampedPath(p, t) == Replace(p, <<Tok("_results_"), Stamp(t), Tok(".csv")>>)

Exists(fs, p) == p \in DOMAIN fs

\* open(p, 'w') followed by the writes: p is created or replaced.
WriteFile(fs, p, c) == [q \in DOMAIN fs \cup {p} |-> IF q = p THEN c ELSE fs[q]]

\* Contents.  n is the number of data rows a csv.DictReader finds in the file.
Table(n) == [kind |-> "table", n |-> n, data |-> <<>>]
EmptyFile == [kind |-> "empty", n |-> 0, data |-> <<>>]
OldResults == [kind |-> "results", n |-> 0, data |-> <<>>]

\* The row _write_results_csv writes for a result, lines 239-255: the
\* 'Mock Price' column exists only with mock pricing enabled.
OutRow(r) ==
    IF enable_mock_pricing THEN r
    ELSE [Row |-> r.Row, WineName |-> r.WineName, Vintage |-> r.Vintage,
          Status |-> r.Status, Timestamp |-> r.Timestamp]

ResultsFile(rs) ==
    [kind |-> "results", n |-> Len(rs), data |-> [i \in 1..Len(rs) |-> OutRow(rs[i])]]

\* input(...).strip().lower(), line 219.
Lower(c) ==
    CASE c = "Y" -> "y" [] c = "E" -> "e" [] c = "S" -> "s" [] c = "N" -> "n"
      [] OTHER -> c

Normalise(a) == LET t == RStrip(LStrip(a)) IN [i \in 1..Len(t) |-> Lower(t[i])]

\* overwrite in ['y', 'yes'], line 220 (negated there).
Accepts(a) == Normalise(a) \in { <<"y">>, <<"y", "e", "s">> }

\* What an operator may type at the prompt.
Answers ==
    { <<"y">>, <<" ", "Y", "E", "S">>, <<"n">>, <<>>, <<"y", "e", "a", "h">> }

-----------------------------------------------------------------------------
(* process_csv, lines 53-141 *)

ZeroStats ==
    [total_rows |-> 0, successful_calls |-> 0, failed_calls |-> 0, skipped_rows |-> 0]

\* Mutant of RowNum: enumerate(reader, start=1), the header row forgotten.
RowNumFromOne(k) == k

\* enumerate(reader, start=2): the number of the k-th data row.
RowNum(k) == k + 1

\* Mutant of StatusOf: a failed call reported as an 'Error'.
StatusOfFailedAsError(success) == IF success THEN "Success" ELSE "Error"

\* 'Success' if success else 'Failed', line 96.
StatusOf(success) == IF success THEN "Success" ELSE "Failed"

\* The dict of lines 92-99 and 120-127.
Result(k, row, status, price) ==
    [Row |-> RowNum(k), WineName |-> row.name, Vintage |-> row.vintage,
     Status |-> status, MockPrice |-> price, Timestamp |-> now]

\* Mutant of Counted: a failed call counted as a skipped row.
CountedFailedAsSkipped(st, success) ==
    IF success THEN [st EXCEPT !.successful_calls = @ + 1]
    ELSE [st EXCEPT !.skipped_rows = @ + 1]

\* Lines 102-107.
Counted(st, success) ==
    IF success THEN [st EXCEPT !.successful_calls = @ + 1]
    ELSE [st EXCEPT !.failed_calls = @ + 1]

\* except Exception, line 114.
CountedError(st) == [st EXCEPT !.failed_calls = @ + 1]

\* row_num < stats['total_rows'], line 110.
DelayDue(row_num, st) == row_num < st.total_rows

\* The variation the rows of a run draw from random.uniform; the whole range is
\* drawn where _generate_mock_price is called alone.
RowVariations == {275}

\* The delays a processor is constructed with; time.sleep raises ValueError on a
\* negative one.
Delays == {0 - 1, 1}

\* What a row went through: whether session.get was issued for it, what came
\* back, and whether an exception reached the handler of line 113.
NoCall == [row |-> 0, issued |-> FALSE, resp |-> "none", escaped |-> FALSE]

Went(k, call, resp, escaped) ==
    [row |-> RowNum(k), issued |-> call.issued,
     resp |-> IF call.issued THEN resp ELSE "none", escaped |-> escaped]

\* Mutant of OnReadError: the error is logged and not re-raised, so line 139 runs.
OnReadErrorSwallowed == "write"

\* except FileNotFoundError / except Exception, lines 131-136: both re-raise.
OnReadError == "raised"

\* The state of a run at line 73, before the input is opened.
FreshRun ==
    /\ pc = "start"
    /\ nRows = 0
    /\ rowsRead = 0
    /\ stats = ZeroStats
    /\ results = <<>>
    /\ calls = <<>>
    /\ lastCall = NoCall
    /\ sleeps = 0
    /\ writerCalls = 0
    /\ writerArg = <<>>
    /\ prompted = FALSE
    /\ answer = "none"
    /\ outPath = NoPath
    /\ writeFailed = "none"
    /\ returned = NoStats
    /\ error = "none"

\* The file systems a first run can meet: the input is missing, empty, or a table
\* of up to maxRows rows; its results file is there from an earlier run, or not.
InitialFiles(p, maxRows) ==
    LET inputs == {EmptyFile} \cup {Table(n) : n \in 0..maxRows}
        withInput == {[q \in {p} |-> c] : c \in inputs}
        base == withInput \cup {<<>>}
    IN  base \cup {WriteFile(fs, ResultsPath(p), OldResults) :
                      fs \in {f \in base : ~Exists(f, ResultsPath(p))}}

InitFor(maxRows) ==
    /\ inputPath \in InputPaths
    /\ files \in InitialFiles(inputPath, maxRows)
    /\ now = 0
    /\ run = 1
    /\ enable_mock_pricing \in BOOLEAN
    /\ rate_limit_delay \in Delays
    /\ FreshRun
    /\ priceIn = None
    /\ priceOut = NotApplicable

Init == InitFor(MaxRows)

\* open(csv_file_path) on a missing file: FileNotFoundError, re-raised (131-133).
OpenMissing ==
    /\ pc = "start"
    /\ ~Exists(files, inputPath)
    /\ pc' = OnReadError
    /\ error' = "FileNotFoundError"
    /\ UNCHANGED <<files, now, run, inputPath, enable_mock_pricing, rate_limit_delay,
                   nRows, rowsRead, stats, results, calls, lastCall, sleeps, writerCalls,
                   writerArg, prompted, answer, outPath, writeFailed, returned>>
    /\ UNCHANGED priceVars

\* open() fails for another reason (permissions, a directory): OSError,
\* re-raised (134-136).
OpenDenied ==
    /\ pc = "start"
    /\ Exists(files, inputPath)
    /\ pc' = OnReadError
    /\ error' = "OSError"
    /\ UNCHANGED <<files, now, run, inputPath, enable_mock_pricing, rate_limit_delay,
                   nRows, rowsRead, stats, results, calls, lastCall, sleeps, writerCalls,
                   writerArg, prompted, answer, outPath, writeFailed, returned>>
    /\ UNCHANGED priceVars

\* A file without a header line: reader.fieldnames is None and len() of it, line
\* 77, raises TypeError inside the outer try (134-136).
OpenNoHeader ==
    /\ pc = "start"
    /\ Exists(files, inputPath)
    /\ files[inputPath].kind = "empty"
    /\ pc' = OnReadError
    /\ error' = "TypeError"
    /\ UNCHANGED <<files, now, run, inputPath, enable_mock_pricing, rate_limit_delay,
                   nRows, rowsRead, stats, results, calls, lastCall, sleeps, writerCalls,
                   writerArg, prompted, answer, outPath, writeFailed, returned>>
    /\ UNCHANGED priceVars

\* Lines 74-78: the file opens and has a header.
OpenOk ==
    /\ pc = "start"
    /\ Exists(files, inputPath)
    /\ files[inputPath].kind # "empty"
    /\ pc' = "rows"
    /\ nRows' = files[inputPath].n
    /\ UNCHANGED <<files, now, run, inputPath, enable_mock_pricing, rate_limit_delay,
                   rowsRead, stats, results, calls, lastCall, sleeps, writerCalls,
                   writerArg, prompted, answer, outPath, writeFailed, returned, error>>
    /\ UNCHANGED priceVars

\* The reader raises while fetching the next row (csv.Error, UnicodeDecodeError,
\* an I/O error): caught at 134 and re-raised.
ReadError ==
    /\ pc = "rows"
    /\ rowsRead < nRows
    /\ pc' = OnReadError
    /\ error' = "ReadError"
    /\ UNCHANGED <<files, now, run, inputPath, enable_mock_pricing, rate_limit_delay,
                   nRows, rowsRead, stats, results, calls, lastCall, sleeps, writerCalls,
                   writerArg, prompted, answer, outPath, writeFailed, returned>>
    /\ UNCHANGED priceVars

\* One iteration of the loop, lines 80-111, in which lines 85-107 raise nothing.
\* The sleep of line 111 raises ValueError on a negative delay; the handler of
\* lines 113-129 then runs after the result of line 100 was appended.
RowHandled ==
    /\ pc = "rows"
    /\ rowsRead < nRows
    /\ \E row \in Rows, resp \in Responses, v \in RowVariations :
        LET k == rowsRead + 1
            st1 == [stats EXCEPT !.total_rows = @ + 1]
            call == MakeApiCall(row, resp)
            res == Result(k, row, StatusOf(call.ret), GenerateMockPrice(row.vintage, v))
            st2 == Counted(st1, call.ret)
            due == DelayDue(RowNum(k), st2)
            sleepRaises == due /\ rate_limit_delay < 0
        IN  /\ rowsRead' = k
            /\ calls' = IF call.issued THEN Append(calls, RowNum(k)) ELSE calls
            /\ lastCall' = Went(k, call, resp, sleepRaises)
            /\ stats' = IF sleepRaises THEN CountedError(st2) ELSE st2
            /\ results' =
                 IF sleepRaises
                 THEN Append(Append(results, res),
                             Result(k, row, "Error", GenerateMockPrice(row.vintage, v)))
                 ELSE Append(results, res)
            /\ sleeps' = IF due /\ ~sleepRaises THEN sleeps + 1 ELSE sleeps
    /\ UNCHANGED <<files, now, run, inputPath, enable_mock_pricing, rate_limit_delay,
                   pc, nRows, writerCalls, writerArg, prompted, answer, outPath,
                   writeFailed, returned, error>>
    /\ UNCHANGED priceVars

\* One iteration in which an Exception leaves lines 88-99, after _make_api_call
\* returned and before the result is appended: the handler of lines 113-129
\* counts a failed call and appends an 'Error' result.  _make_api_call lets no
\* Exception out (lines 205-210), and lines 102-107 only count and log, so this
\* and the sleep of line 111 are the ways into the handler; the handler itself
\* is taken to complete.
RowFault ==
    /\ pc = "rows"
    /\ rowsRead < nRows
    /\ \E row \in Rows, resp \in Responses, v \in RowVariations :
        LET k == rowsRead + 1
            st1 == [stats EXCEPT !.total_rows = @ + 1]
            call == MakeApiCall(row, resp)
        IN  /\ rowsRead' = k
            /\ calls' = IF call.issued THEN Append(calls, RowNum(k)) ELSE calls
            /\ lastCall' = Went(k, call, resp, TRUE)
            /\ stats' = CountedError(st1)
            /\ results' = Append(results,
                             Result(k, row, "Error", GenerateMockPrice(row.vintage, v)))
    /\ UNCHANGED <<files, now, run, inputPath, enable_mock_pricing, rate_limit_delay,
                   pc, nRows, sleeps, writerCalls, writerArg, prompted, answer, outPath,
                   writeFailed, returned, error>>
    /\ UNCHANGED priceVars

\* The reader is exhausted: the with block closes the input, line 139 is next.
FinishRows ==
    /\ pc = "rows"
    /\ rowsRead = nRows
    /\ pc' = "write"
    /\ UNCHANGED <<files, now, run, inputPath, enable_mock_pricing, rate_limit_delay,
                   nRows, rowsRead, stats, results, calls, lastCall, sleeps, writerCalls,
                   writerArg, prompted, answer, outPath, writeFailed, returned, error>>
    /\ UNCHANGED priceVars

-----------------------------------------------------------------------------
(* _write_results_csv, lines 212-259, called at line 139 *)

\* How the try block of lines 226-259 can end: everything is written; open()
\* raises and nothing is touched; or a write raises after open() truncated the
\* file and some rows went out.  The except of line 258 only logs.
WriteOutcomes == {"ok", "open", "write"}

\* A write that fails leaves the header and k rows; which rows is not kept.
Partial(k) == [kind |-> "partial", n |-> k, data |-> <<>>]

\* The failing write is the first or the last one.
PartialRows(rs) == {0} \cup {k \in {Len(rs) - 1} : k >= 0}

FilesAfterWrite(fs, path, rs, outcome, k) ==
    CASE outcome = "ok" -> WriteFile(fs, path, ResultsFile(rs))
      [] outcome = "open" -> fs
      [] outcome = "write" -> WriteFile(fs, path, Partial(k))

\* Lines 226-259 on the chosen path, and the return to line 141.
WriteTo(path) ==
    \E outcome \in WriteOutcomes, k \in PartialRows(results) :
        /\ files' = FilesAfterWrite(files, path, results, outcome, k)
        /\ writeFailed' = IF outcome = "ok" THEN "none" ELSE outcome
        /\ outPath' = path
        /\ writerCalls' = writerCalls + 1
        /\ writerArg' = results
        /\ pc' = "return"

\* The results path is free: no prompt (line 217 is false).
WriteFresh ==
    /\ pc = "write"
    /\ ~Exists(files, ResultsPath(inputPath))
    /\ WriteTo(ResultsPath(inputPath))
    /\ UNCHANGED <<prompted, answer>>
    /\ UNCHANGED <<now, run, inputPath, enable_mock_pricing, rate_limit_delay,
                   nRows, rowsRead, stats, results, calls, lastCall, sleeps, returned, error>>
    /\ UNCHANGED priceVars

\* The results path exists and the operator accepts: lines 217-220.
WriteOverwrite ==
    /\ pc = "write"
    /\ Exists(files, ResultsPath(inputPath))
    /\ \E a \in Answers :
        /\ Accepts(a)
        /\ prompted' = TRUE
        /\ answer' = IF Accepts(a) THEN "accept" ELSE "decline"
        /\ WriteTo(ResultsPath(inputPath))
    /\ UNCHANGED <<now, run, inputPath, enable_mock_pricing, rate_limit_delay,
                   nRows, rowsRead, stats, results, calls, lastCall, sleeps, returned, error>>
    /\ UNCHANGED priceVars

\* The results path exists and the operator declines: lines 217-224.
WriteDeclined ==
    /\ pc = "write"
    /\ Exists(files, ResultsPath(inputPath))
    /\ \E a \in Answers :
        /\ ~Accepts(a)
        /\ prompted' = TRUE
        /\ answer' = IF Accepts(a) THEN "accept" ELSE "decline"
        /\ WriteTo(StampedPath(inputPath, now))
    /\ UNCHANGED <<now, run, inputPath, enable_mock_pricing, rate_limit_delay,
                   nRows, rowsRead, stats, results, calls, lastCall, sleeps, returned, error>>
    /\ UNCHANGED priceVars

\* The results path exists and standard input is at end of file: input(), line
\* 219, raises EOFError outside the try of line 226; nothing catches it in
\* _write_results_csv or after line 139.
WritePromptEOF ==
    /\ pc = "write"
    /\ Exists(files, ResultsPath(inputPath))
    /\ prompted' = TRUE
    /\ writerCalls' = writerCalls + 1
    /\ writerArg' = results
    /\ writeFailed' = "prompt"
    /\ error' = "EOFError"
    /\ pc' = "raised"
    /\ UNCHANGED <<files, now, run, inputPath, enable_mock_pricing, rate_limit_delay,
                   nRows, rowsRead, stats, results, calls, lastCall, sleeps, answer, outPath,
                   returned>>
    /\ UNCHANGED priceVars

\* return stats, line 141.
ReturnStats ==
    /\ pc = "return"
    /\ returned' = stats
    /\ pc' = "returned"
    /\ UNCHANGED <<files, now, run, inputPath, enable_mock_pricing, rate_limit_delay,
                   nRows, rowsRead, stats, results, calls, lastCall, sleeps, writerCalls,
                   writerArg, prompted, answer, outPath, writeFailed, error>>
    /\ UNCHANGED priceVars

Next ==
    \/ OpenMissing
    \/ OpenDenied
    \/ OpenNoHeader
    \/ OpenOk
    \/ ReadError
    \/ RowHandled
    \/ RowFault
    \/ FinishRows
    \/ WriteFresh
    \/ WriteOverwrite
    \/ WriteDeclined
    \/ WritePromptEOF
    \/ ReturnStats

\* One invocation of process_csv.
Spec == Init /\ [][Next]_vars

-----------------------------------------------------------------------------
(* Repeated runs against the same input, and the wall clock *)

\* The script is started again on the same input with the same options: a new
\* WineAPIProcessor and a new call of process_csv (lines 354-355).  The file
\* system and the clock are what the earlier runs left.
NewRun ==
    /\ pc \in {"returned", "raised"}
    /\ run < MaxRuns
    /\ run' = run + 1
    /\ pc' = "start"
    /\ nRows' = 0
    /\ rowsRead' = 0
    /\ stats' = ZeroStats
    /\ results' = <<>>
    /\ calls' = <<>>
    /\ lastCall' = NoCall
    /\ sleeps' = 0
    /\ writerCalls' = 0
    /\ writerArg' = <<>>
    /\ prompted' = FALSE
    /\ answer' = "none"
    /\ outPath' = NoPath
    /\ writeFailed' = "none"
    /\ returned' = NoStats
    /\ error' = "none"
    /\ UNCHANGED <<files, now, inputPath, enable_mock_pricing, rate_limit_delay>>
    /\ UNCHANGED priceVars

\* A second passes.
Tick ==
    /\ now < MaxClock
    /\ now' = now + 1
    /\ UNCHANGED <<files, run, inputPath, enable_mock_pricing, rate_limit_delay>>
    /\ UNCHANGED runVars
    /\ UNCHANGED priceVars

InitRuns == InitFor(MaxRerunRows)

NextRuns ==
    \/ Next
    \/ NewRun
    \/ Tick

\* Up to MaxRuns invocations, one after the other.
SpecRuns == InitRuns /\ [][NextRuns]_vars

-----------------------------------------------------------------------------
(* _generate_mock_price called alone *)

\* Vintage strings, each with what Python's int() makes of it (ok = FALSE: it
\* raises ValueError, or TypeError for None).
PriceSamples ==
    { [s |-> <<"1", "9", "9", "5">>, ok |-> TRUE, year |-> 1995],
      [s |-> <<"1", "9", "9", "9">>, ok |-> TRUE, year |-> 1999],
      [s |-> <<"2", "0", "0", "0">>, ok |-> TRUE, year |-> 2000],
      [s |-> <<"2", "0", "0", "5">>, ok |-> TRUE, year |-> 2005],
      [s |-> <<"2", "0", "0", "9">>, ok |-> TRUE, year |-> 2009],
      [s |-> <<"2", "0", "1", "0">>, ok |-> TRUE, year |-> 2010],
      [s |-> <<"2", "0", "1", "5">>, ok |-> TRUE, year |-> 2015],
      [s |-> <<"2", "0", "1", "9">>, ok |-> TRUE, year |-> 2019],
      [s |-> <<"2", "0", "2", "0">>, ok |-> TRUE, year |-> 2020],
      [s |-> <<"2", "0", "2", "3">>, ok |-> TRUE, year |-> 2023],
      [s |-> <<" ", "2", "0", "0", "5", " ">>, ok |-> TRUE, year |-> 2005],
      [s |-> <<"+", "2", "0", "2", "0">>, ok |-> TRUE, year |-> 2020],
      [s |-> <<"-", "5">>, ok |-> TRUE, year |-> 0 - 5],
      [s |-> <<"9", "8">>, ok |-> TRUE, year |-> 98],
      [s |-> <<"b", "a", "d">>, ok |-> FALSE, year |-> 0],
      [s |-> <<"N", "/", "A", "-", "t", "e", "x", "t">>, ok |-> FALSE, year |-> 0],
      [s |-> <<"1", "9", "9", "9", ".", "0">>, ok |-> FALSE, year |-> 0],
      [s |-> <<"2", "0", " ", "1", "5">>, ok |-> FALSE, year |-> 0],
      [s |-> <<"-">>, ok |-> FALSE, year |-> 0],
      [s |-> <<>>, ok |-> FALSE, year |-> 0],
      [s |-> None, ok |-> FALSE, year |-> 0] }

InitPrice ==
    /\ inputPath = <<Tok("wines"), Tok(".csv")>>
    /\ files = <<>>
    /\ now = 0
    /\ run = 1
    /\ enable_mock_pricing \in BOOLEAN
    /\ rate_limit_delay = 1
    /\ FreshRun
    /\ priceIn \in {x.s : x \in PriceSamples}
    /\ priceOut = NotApplicable

\* self._generate_mock_price(priceIn), with random.uniform drawing v.
GeneratePrice ==
    /\ pc = "start"
    /\ \E v \in UniformCents : priceOut' = GenerateMockPrice(priceIn, v)
    /\ pc' = "priced"
    /\ UNCHANGED <<files, now, run, inputPath, enable_mock_pricing, rate_limit_delay,
                   nRows, rowsRead, stats, results, calls, lastCall, sleeps, writerCalls,
                   writerArg, prompted, answer, outPath, writeFailed, returned, error,
                   priceIn>>

NextPrice == GeneratePrice

SpecPrice == InitPrice /\ [][NextPrice]_vars

-----------------------------------------------------------------------------
(* Properties *)

Statuses(rs) == [i \in 1..Len(rs) |-> rs[i].Status]
CountOf(rs, set) == Cardinality({i \in 1..Len(rs) : rs[i].Status \in set})
AfterLoop == pc \in {"write", "return", "returned"} \/ writerCalls > 0
ReadErrors == {"FileNotFoundError", "OSError", "TypeError", "ReadError"}

\* C1: every row read has exactly one entry in results, in reading order, the
\* entry at position i carrying Row = i + 1; once the loop is over (the writer is
\* next, running or done) the entries are as many as the table has data rows.
C1_OneResultPerRow ==
    /\ Len(results) = rowsRead
    /\ \A i \in 1..Len(results) : results[i].Row = i + 1
    /\ AfterLoop => Len(results) = nRows

\* C1 witness: a three-row table whose rows ended Success, Failed and Error has
\* reached the writer.
C1_Witness ==
    /\ pc = "write"
    /\ nRows = 3
    /\ Statuses(results) = <<"Success", "Failed", "Error">>

\* C2 as stated: status 200 gives 'Success', any other status gives 'Failed',
\* and an exception inside _make_api_call (in the mapping, so that no request
\* goes out, or in the sending) gives 'Error'.
C2_AsStated ==
    rowsRead > 0 /\ ~lastCall.escaped =>
        LET status == results[Len(results)].Status
        IN  /\ lastCall.resp = "200" => status = "Success"
            /\ lastCall.resp = "500" => status = "Failed"
            /\ (~lastCall.issued \/ lastCall.resp = "timeout") => status = "Error"

\* C2 amended: the row handled last is 'Success' exactly when its GET returned
\* 200 and no exception reached the row handler; it is 'Failed' exactly when
\* _make_api_call returned False (another status, or an exception inside it,
\* in the mapping or the sending) and no exception reached the row handler;
\* it is 'Error' exactly when an exception reached the row handler.
C2_Classification ==
    rowsRead > 0 =>
        LET status == results[Len(results)].Status
            ok200 == lastCall.issued /\ lastCall.resp = "200"
        IN  /\ results[Len(results)].Row = lastCall.row
            /\ status = "Success" <=> (ok200 /\ ~lastCall.escaped)
            /\ status = "Failed" <=> (~ok200 /\ ~lastCall.escaped)
            /\ status = "Error" <=> lastCall.escaped

\* C2 witness: a request that timed out was recorded 'Failed' after a short row,
\* whose mapping raised, was recorded 'Failed' too.
C2_Witness ==
    /\ rowsRead = 2
    /\ ~lastCall.escaped
    /\ lastCall.resp = "timeout"
    /\ Statuses(results) = <<"Failed", "Failed">>
    /\ results[1].WineName = None
    /\ calls = <<3>>

\* C3: a run over N >= 2 rows, none of which ended in the row handler, slept
\* exactly N - 1 times by the time its loop is over.
C3_DelayBetweenRows ==
    (AfterLoop /\ nRows >= 2 /\ CountOf(results, {"Error"}) = 0) => sleeps = nRows - 1

\* C4: total_rows is the number of rows read, of results, and the sum of
\* successful_calls and failed_calls; successful_calls counts the 'Success'
\* results, failed_calls the 'Failed' and 'Error' ones; skipped_rows is 0; and
\* the statistics returned after success, success, transport error are
\* {3, 2, 1, 0}.
C4_Statistics ==
    /\ stats.total_rows = rowsRead
    /\ stats.total_rows = Len(results)
    /\ stats.total_rows = stats.successful_calls + stats.failed_calls
    /\ stats.successful_calls = CountOf(results, {"Success"})
    /\ stats.failed_calls = CountOf(results, {"Failed", "Error"})
    /\ stats.skipped_rows = 0
    /\ returned # NoStats => returned = stats
    /\ (/\ pc = "returned"
        /\ nRows = 3
        /\ Statuses(SubSeq(results, 1, 2)) = <<"Success", "Success">>
        /\ lastCall = [row |-> 4, issued |-> TRUE, resp |-> "timeout", escaped |-> FALSE])
       => returned = [total_rows |-> 3, successful_calls |-> 2, failed_calls |-> 1,
                      skipped_rows |-> 0]

\* C4 witness: the run of success, success, transport error has returned.
C4_Witness ==
    /\ pc = "returned"
    /\ nRows = 3
    /\ Statuses(results) = <<"Success", "Success", "Failed">>
    /\ lastCall = [row |-> 4, issued |-> TRUE, resp |-> "timeout", escaped |-> FALSE]
    /\ returned.failed_calls = 1

\* C5: the GETs issued so far are one per row read, in file order.
C5_OneCallPerRow == calls = [i \in 1..rowsRead |-> i + 1]

\* C6: the writer is invoked at most once, only with every row read and handled,
\* with the whole results sequence, and before anything is returned; a run whose
\* input could not be opened or read ends raised, with the writer never invoked
\* and nothing returned; a run at line 139 can always enter the writer.
C6_WriterOrdering ==
    /\ writerCalls <= 1
    /\ writerCalls = 1 =>
         /\ rowsRead = nRows
         /\ writerArg = results
         /\ Len(writerArg) = nRows
         /\ error \notin ReadErrors
    /\ pc \in {"start", "rows", "write"} => writerCalls = 0 /\ returned = NoStats
    /\ pc = "write" =>
         /\ rowsRead = nRows
         /\ ENABLED (WriteFresh \/ WriteOverwrite \/ WriteDeclined \/ WritePromptEOF)
    /\ pc \in {"return", "returned"} => writerCalls = 1
    /\ returned # NoStats => pc = "returned"
    /\ error \in ReadErrors => pc = "raised" /\ writerCalls = 0 /\ returned = NoStats

\* C6 witness: a two-row run has returned after its one call of the writer.
C6_Witness ==
    /\ pc = "returned"
    /\ nRows = 2
    /\ writerCalls = 1
    /\ Len(writerArg) = 2

\* C7: a failure in any step of the writer leaves process_csv returning its
\* statistics: it never ends raised.
C7_WriteFailureDoesNotRaise ==
    writeFailed # "none" => pc \in {"return", "returned"} /\ error = "none"

\* C8: when the writer runs, it prompts exactly when the results path exists;
\* on a declined prompt it writes to a path that is not the results path and
\* names no file that exists, and leaves the results file as it was; on an
\* accepted prompt it writes to the results path, replacing its content.
C8_OverwriteProtection ==
    [][(pc = "write" /\ pc' = "return") =>
         LET rp == ResultsPath(inputPath)
         IN  /\ prompted' <=> Exists(files, rp)
             /\ answer' = "decline" =>
                  /\ outPath' # rp
                  /\ ~Exists(files, outPath')
                  /\ files'[rp] = files[rp]
             /\ answer' = "accept" =>
                  /\ outPath' = rp
                  /\ writeFailed' = "none" => files'[rp] = ResultsFile(results)]_vars

\* C9: with mock pricing disabled the price is 'N/A'; enabled, a vintage that
\* int() accepts gives the base of its bracket plus a variation within
\* [-5.00, 8.00], and any other vintage gives '$32.99'.
C9_MockPrice ==
    pc = "priced" =>
        LET x == CHOOSE x \in PriceSamples : x.s = priceIn
            base == IF x.year < 2000 THEN 25
                    ELSE IF x.year < 2010 THEN 35
                    ELSE IF x.year < 2020 THEN 28
                    ELSE 22
        IN  IF ~enable_mock_pricing THEN priceOut = [text |-> "N/A", cents |-> 0]
            ELSE IF x.ok
                 THEN /\ priceOut.text = "$"
                      /\ priceOut.cents - 100 * base >= 0 - 500
                      /\ priceOut.cents - 100 * base <= 800
                 ELSE priceOut = [text |-> "$", cents |-> 3299]

\* C9 witness: vintage '2010' priced at the top of its bracket, $36.00.
C9_Witness ==
    /\ pc = "priced"
    /\ enable_mock_pricing
    /\ priceIn = <<"2", "0", "1", "0">>
    /\ priceOut = [text |-> "$", cents |-> 3600]

\* C10: the path the writer opens for writing is never the input path.
C10_NeverWritesInput == writerCalls > 0 /\ outPath # NoPath => outPath # inputPath

====
